---- MODULE Spec2Model ----
(***************************************************************************)
(* A model of src/proxy.js, the stdio-to-SSE proxy.                        *)
(*                                                                         *)
(* Text is modelled as a sequence of one-character strings.  Bytes on the  *)
(* SSE connection are modelled the same way; the two bytes of the UTF-8    *)
(* encoding of U+00E9 are the tokens "C3" and "A9", the decoded character  *)
(* is "e'" and the replacement character U+FFFD is the token "FFFD".       *)
(* Optional values (null in the source) are records [some, v].             *)
(***************************************************************************)
EXTENDS Naturals, Integers, Sequences, FiniteSets, TLC

\* ------------------------------------------------------------------ bounds
MaxLines == 2          \* stdin lines delivered in one run
MaxChunks == 2         \* SSE 'data' callbacks in one run of Spec
MaxInputs == 4         \* stdin lines and 'data' callbacks together
MaxStreamLines == 3    \* lines of the SSE stream fed in SpecParser

\* --------------------------------------------------------- optional values
None == [some |-> FALSE, v |-> <<>>]
Some(x) == [some |-> TRUE, v |-> x]

\* JavaScript truthiness of a string-or-null value: null and '' are falsy
Falsy(o) == (~o.some) \/ o.v = <<>>

\* ------------------------------------------------------------ text helpers
\* String.prototype.indexOf, counted from 1; 0 when c does not occur
IndexOf(s, c) ==
  LET at == {i \in 1..Len(s) : s[i] = c}
  IN IF at = {} THEN 0 ELSE CHOOSE i \in at : \A j \in at : i <= j

RECURSIVE SplitOn(_, _)
\* String.prototype.split(c) for a one-character separator
SplitOn(s, c) ==
  LET i == IndexOf(s, c)
  IN IF i = 0 THEN <<s>>
     ELSE <<SubSeq(s, 1, i-1)>> \o SplitOn(SubSeq(s, i+1, Len(s)), c)

StartsWith(s, p) == Len(s) >= Len(p) /\ SubSeq(s, 1, Len(p)) = p

Slice(s, n) == SubSeq(s, n+1, Len(s))

WhiteSpace == {" ", "\t", "\r"}

RECURSIVE TrimStart(_)
TrimStart(s) ==
  IF s # <<>> /\ Head(s) \in WhiteSpace THEN TrimStart(Tail(s)) ELSE s

RECURSIVE TrimEnd(_)
TrimEnd(s) ==
  IF s # <<>> /\ s[Len(s)] \in WhiteSpace
  THEN TrimEnd(SubSeq(s, 1, Len(s)-1)) ELSE s

\* String.prototype.trim
Trim(s) == TrimEnd(TrimStart(s))

\* Buffer.prototype.toString('utf8') of one chunk: a lead byte followed by
\* its continuation byte is one character, a lead byte or a continuation
\* byte on its own is U+FFFD
Utf8Decode(bytes) ==
  LET n == Len(bytes)
      at == [i \in 1..n |->
               IF bytes[i] = "C3"
               THEN IF i < n /\ bytes[i+1] = "A9" THEN "e'" ELSE "FFFD"
               ELSE IF bytes[i] = "A9"
                    THEN IF i > 1 /\ bytes[i-1] = "C3" THEN "" ELSE "FFFD"
                    ELSE bytes[i]]
      Kept(c) == c # ""
  IN SelectSeq(at, Kept)

\* ------------------------------------------------- JSON of an SSE payload
Digits == {"0", "1", "2", "3", "4", "5", "6", "7", "8", "9"}

\* the JSON texts the model knows: a one-digit number or a string literal
\* without escapes, with optional surrounding white space
IsJSONText(s) ==
  LET t == Trim(s)
  IN \/ Len(t) = 1 /\ t[1] \in Digits
     \/ /\ Len(t) >= 2
        /\ t[1] = "\"" /\ t[Len(t)] = "\""
        /\ \A i \in 2..(Len(t)-1) : t[i] \notin {"\"", "\\", "\t", "\r"}

\* JSON.parse of a payload that IsJSONText
JSONParseText(s) ==
  LET t == Trim(s)
  IN IF Len(t) = 1 THEN [t |-> "num", v |-> t]
     ELSE [t |-> "str", v |-> SubSeq(t, 2, Len(t)-1)]

\* JSON.stringify of such a value
JSONStringifyValue(val) ==
  IF val.t = "num" THEN val.v ELSE <<"\"">> \o val.v \o <<"\"">>

\* ------------------------------------------------------- URL of an endpoint
\* new URL(data, base) throws for a network-path reference with an empty
\* host ("//", "///x", "//?q"); every other payload of the model resolves
\* against the base
URLThrows(data) ==
  LET d == Trim(data)
  IN /\ StartsWith(d, <<"/", "/">>)
     /\ (Len(d) = 2 \/ d[3] \in {"/", "?", "#", "\\"})

\* the query of the URL: what follows the first "?" of the part before "#"
URLQuery(data) ==
  LET d == Trim(data)
      h == IndexOf(d, "#")
      nofrag == IF h = 0 THEN d ELSE SubSeq(d, 1, h-1)
      q == IndexOf(nofrag, "?")
  IN IF q = 0 THEN <<>> ELSE Slice(nofrag, q)

\* application/x-www-form-urlencoded decoding: "+" is a space
FormDecode(s) == [i \in 1..Len(s) |-> IF s[i] = "+" THEN " " ELSE s[i]]

RECURSIVE FirstParam(_, _)
FirstParam(pairs, name) ==
  IF pairs = <<>> THEN None
  ELSE LET p == Head(pairs)
           e == IndexOf(p, "=")
           key == FormDecode(IF e = 0 THEN p ELSE SubSeq(p, 1, e-1))
           val == FormDecode(IF e = 0 THEN <<>> ELSE Slice(p, e))
       IN IF p # <<>> /\ key = name THEN Some(val)
          ELSE FirstParam(Tail(pairs), name)

\* URLSearchParams.prototype.get
SearchParamsGet(data, name) == FirstParam(SplitOn(URLQuery(data), "&"), name)

\* ------------------------------------------------------------ SSE parser
EventPrefix == <<"e", "v", "e", "n", "t", ":", " ">>
DataPrefix == <<"d", "a", "t", "a", ":", " ">>
Endpoint == <<"e", "n", "d", "p", "o", "i", "n", "t">>
Message == <<"m", "e", "s", "s", "a", "g", "e">>
Done == <<"[", "D", "O", "N", "E", "]">>
SessionIdParam == <<"s", "e", "s", "s", "i", "o", "n", "I", "d">>
LogPrefixLen == 50

Substring(s, n) == SubSeq(s, 1, IF Len(s) < n THEN Len(s) ELSE n)

LogEntry(tag, arg) == [tag |-> tag, arg |-> arg]

\* a session id already held is kept when another endpoint event arrives
EndpointEventKeepsFirst(ps, data) ==
  IF URLThrows(data)
  THEN [ps EXCEPT !.threw = TRUE]
  ELSE LET sid == SearchParamsGet(data, SessionIdParam)
       IN [ps EXCEPT !.sessionId = IF Falsy(@) THEN sid ELSE @,
                     !.sessionLog = Append(@, [data |-> data, value |-> sid]),
                     !.stderr = Append(@, LogEntry("Session established", sid.v)),
                     !.resolved = TRUE,
                     !.currentEvent = None]

\* the endpoint branch of a data line: the session id is whatever
\* searchParams.get returns, resolve() is called, the event type is reset
EndpointEvent(ps, data) ==
  IF URLThrows(data)
  THEN [ps EXCEPT !.threw = TRUE]
  ELSE LET sid == SearchParamsGet(data, SessionIdParam)
       IN [ps EXCEPT !.sessionId = sid,
                     !.sessionLog = Append(@, [data |-> data, value |-> sid]),
                     !.stderr = Append(@, LogEntry("Session established", sid.v)),
                     !.resolved = TRUE,
                     !.currentEvent = None]

\* JSON.parse outside any try: the SyntaxError leaves the 'data' callback
MessageEventThrows(ps, data) ==
  IF data = Done
  THEN [ps EXCEPT !.currentEvent = None]
  ELSE IF IsJSONText(data)
       THEN [ps EXCEPT !.stdout = Append(@, [kind |-> "relay",
                           text |-> JSONStringifyValue(JSONParseText(data))]),
                       !.currentEvent = None]
       ELSE [ps EXCEPT !.threw = TRUE]

\* the sentinel handed to JSON.parse like any other payload
MessageEventNoDone(ps, data) ==
  IF IsJSONText(data)
  THEN [ps EXCEPT !.stdout = Append(@, [kind |-> "relay",
                      text |-> JSONStringifyValue(JSONParseText(data))]),
                  !.currentEvent = None]
  ELSE [ps EXCEPT !.stderr = Append(@, LogEntry("Failed to parse SSE message",
                                         Substring(data, LogPrefixLen))),
                  !.currentEvent = None]

\* the message branch of a data line
MessageEvent(ps, data) ==
  IF data = Done
  THEN [ps EXCEPT !.currentEvent = None]
  ELSE IF IsJSONText(data)
       THEN [ps EXCEPT !.stdout = Append(@, [kind |-> "relay",
                           text |-> JSONStringifyValue(JSONParseText(data))]),
                       !.currentEvent = None]
       ELSE [ps EXCEPT !.stderr = Append(@, LogEntry("Failed to parse SSE message",
                                              Substring(data, LogPrefixLen))),
                       !.currentEvent = None]

\* every line that is neither an event line nor a data line resets the type
ProcessLineResetsOnAny(ps, line) ==
  IF ps.threw THEN ps
  ELSE IF StartsWith(line, EventPrefix)
  THEN [ps EXCEPT !.currentEvent = Some(Trim(Slice(line, 7)))]
  ELSE IF StartsWith(line, DataPrefix)
  THEN LET data == Slice(line, 6)
       IN IF ps.currentEvent = Some(Endpoint) THEN EndpointEvent(ps, data)
          ELSE IF ps.currentEvent = Some(Message) \/ Falsy(ps.currentEvent)
               THEN MessageEvent(ps, data)
               ELSE [ps EXCEPT !.currentEvent = None]
  ELSE [ps EXCEPT !.currentEvent = None]

\* a data line relayed whatever the pending type, endpoint apart
ProcessLineRelaysAny(ps, line) ==
  IF ps.threw THEN ps
  ELSE IF StartsWith(line, EventPrefix)
  THEN [ps EXCEPT !.currentEvent = Some(Trim(Slice(line, 7)))]
  ELSE IF StartsWith(line, DataPrefix)
  THEN LET data == Slice(line, 6)
       IN IF ps.currentEvent = Some(Endpoint) THEN EndpointEvent(ps, data)
          ELSE MessageEvent(ps, data)
  ELSE IF line = <<>>
  THEN [ps EXCEPT !.currentEvent = None]
  ELSE ps

\* one iteration of the loop over the complete lines of a chunk
ProcessLine(ps, line) ==
  IF ps.threw THEN ps
  ELSE IF StartsWith(line, EventPrefix)
  THEN [ps EXCEPT !.currentEvent = Some(Trim(Slice(line, 7)))]
  ELSE IF StartsWith(line, DataPrefix)
  THEN LET data == Slice(line, 6)
       IN IF ps.currentEvent = Some(Endpoint) THEN EndpointEvent(ps, data)
          ELSE IF ps.currentEvent = Some(Message) \/ Falsy(ps.currentEvent)
               THEN MessageEvent(ps, data)
               ELSE [ps EXCEPT !.currentEvent = None]
  ELSE IF line = <<>>
  THEN [ps EXCEPT !.currentEvent = None]
  ELSE ps

RECURSIVE ProcessLines(_, _)
ProcessLines(ps, lines) ==
  IF lines = <<>> THEN ps
  ELSE ProcessLines(ProcessLine(ps, Head(lines)), Tail(lines))

\* res.on('data'): append the decoded chunk to the buffer, split on line
\* feeds, keep the last segment as the new buffer, process the others
\* buffer = lines.pop() || '' and the loop over the remaining lines
PopAndProcess(ps, lines) ==
  ProcessLines([ps EXCEPT !.buffer = lines[Len(lines)]],
               SubSeq(lines, 1, Len(lines)-1))

OnData(ps, chunk) ==
  PopAndProcess(ps, SplitOn(ps.buffer \o Utf8Decode(chunk), "\n"))

\* ------------------------------------------------------------ stdin lines
\* JSON scalars carried by the id field; the number or string is held as text
JNull == [t |-> "null", v |-> ""]
JNum(d) == [t |-> "num", v |-> d]
JStr(x) == [t |-> "str", v |-> x]

\* JavaScript truthiness of a JSON scalar: null, 0 and "" are falsy
Truthy(j) == ~(j.t = "null" \/ (j.t = "num" /\ j.v = "0") \/ (j.t = "str" /\ j.v = ""))

\* the value JSON.parse returns: an object with an optional id, or null
Msg(hasId, id, method) ==
  [kind |-> "object", hasId |-> hasId, id |-> id, method |-> method]
NullValue == [kind |-> "null", hasId |-> FALSE, id |-> JNull, method |-> ""]

BlankLine == "   "
MalformedLine == "{bad"
NullLine == "null"
Ping0Line == "{\"jsonrpc\":\"2.0\",\"id\":0,\"method\":\"ping\"}"
NotifyLine == "{\"jsonrpc\":\"2.0\",\"method\":\"notify\"}"
SpacedLine == " { \"jsonrpc\": \"2.0\", \"id\": 2, \"method\": \"ping\" } "
Ping2Text == "{\"jsonrpc\":\"2.0\",\"id\":2,\"method\":\"ping\"}"
NullText == "null"

\* the lines stdin delivers in the runs explored
StdinLines == {BlankLine, MalformedLine, Ping0Line, NotifyLine, SpacedLine}

\* line.trim() is empty
IsBlank(text) == text \in {"", BlankLine}

\* JSON.parse(line): ok is FALSE when it throws a SyntaxError
JSONParseLine(text) ==
  CASE text = NullLine -> [ok |-> TRUE, value |-> NullValue]
    [] text = Ping0Line -> [ok |-> TRUE, value |-> Msg(TRUE, JNum("0"), "ping")]
    [] text = NotifyLine -> [ok |-> TRUE, value |-> Msg(FALSE, JNull, "notify")]
    [] text = SpacedLine -> [ok |-> TRUE, value |-> Msg(TRUE, JNum("2"), "ping")]
    [] OTHER -> [ok |-> FALSE, value |-> NullValue]

\* JSON.stringify(message): the compact serialization
JSONStringifyMsg(value) ==
  CASE value = NullValue -> NullText
    [] value = Msg(TRUE, JNum("0"), "ping") -> Ping0Line
    [] value = Msg(FALSE, JNull, "notify") -> NotifyLine
    [] value = Msg(TRUE, JNum("2"), "ping") -> Ping2Text

\* ------------------------------------------------------------------ errors
Err(msg, status, body) == [msg |-> msg, status |-> status, body |-> body]
NoSessionError == Err("No active session", 0, "")
UnescapedError == Err("Request path contains unescaped characters", 0, "")
TransportError == Err("socket hang up", 0, "")
\* `HTTP ${res.statusCode}: ${data}`
HttpError(status, body) == Err("HTTP", status, body)

InternalError == -32603

\* ---------------------------------------------------------------- sender
\* sseUrl.pathname of the default SSE_URL 'http://localhost:3080/sse'
Pathname == <<"/", "s", "s", "e">>

\* randomUUID()
ClientSessionId == <<"u", "u", "i", "d">>

\* the placeholder id of the GET used again
RequestPathPlaceholder(id) ==
  Pathname \o <<"?">> \o SessionIdParam \o <<"=">> \o ClientSessionId

\* `${sseUrl.pathname}?sessionId=${id}`
RequestPath(id) == Pathname \o <<"?">> \o SessionIdParam \o <<"=">> \o id

\* the guard left out
NoSessionUnchecked(sid) == FALSE

\* !sessionId
NoSession(sid) == Falsy(sid)

\* http.request throws ERR_UNESCAPED_CHARACTERS for a path with a character
\* outside U+0021..U+00FF
PathInvalid(path) == \E i \in 1..Len(path) : path[i] \in {" ", "\t", "\r", "FFFD"}

\* sendMessage up to req.end(): either the promise is rejected at once, or
\* one POST is issued and the promise stays pending
SendMessage(sid, message) ==
  IF NoSession(sid)
  THEN [posted |-> FALSE, error |-> NoSessionError, path |-> <<>>, body |-> ""]
  ELSE IF PathInvalid(RequestPath(sid.v))
  THEN [posted |-> FALSE, error |-> UnescapedError, path |-> <<>>, body |-> ""]
  ELSE [posted |-> TRUE, error |-> Err("", 0, ""),
        path |-> RequestPath(sid.v), body |-> JSONStringifyMsg(message)]

\* only 200 taken as success
IsSuccessOnly200(status) == status = 200

\* res.statusCode >= 200 && res.statusCode < 300
IsSuccess(status) == status >= 200 /\ status < 300

\* an envelope with id null written when the line cannot be parsed again
ErrorEnvelopeAlways(text, n, err) ==
  LET p == JSONParseLine(text)
  IN <<[kind |-> "error", line |-> n,
        id |-> IF p.ok /\ p.value.hasId /\ Truthy(p.value.id) THEN p.value.id ELSE JNull,
        code |-> InternalError, message |-> err]>>

\* the catch block of the line handler: the lines it writes to stdout.  The
\* line is parsed again; when that throws, or when reading .id of null
\* throws, the inner catch swallows it and nothing is written
ErrorEnvelope(text, n, err) ==
  LET p == JSONParseLine(text)
  IN IF ~p.ok THEN <<>>
     ELSE IF p.value.kind = "null" THEN <<>>
     ELSE <<[kind |-> "error", line |-> n,
             id |-> IF p.value.hasId /\ Truthy(p.value.id) THEN p.value.id ELSE JNull,
             code |-> InternalError, message |-> err]>>

\* ------------------------------------------------- what the server sends
LF == <<"\n">>

EndpointFrame(data) ==
  EventPrefix \o Endpoint \o LF \o DataPrefix \o data \o LF \o LF
MessageFrame(data) ==
  EventPrefix \o Message \o LF \o DataPrefix \o data \o LF \o LF

\* payloads of an endpoint event: a session id, an id with an encoded space,
\* no sessionId parameter, a reference the URL parser rejects
EndpointA == <<"/", "s", "s", "e", "?", "s", "e", "s", "s", "i", "o", "n", "I", "d", "=", "a">>
EndpointSpace == EndpointA \o <<"+", "b">>
EndpointNoId == <<"/", "s", "s", "e">>
EndpointBad == <<"/", "/">>
EndpointPayloads == {EndpointA, EndpointSpace, EndpointNoId, EndpointBad}

\* payloads of a message event: a JSON text, and one JSON.parse rejects
MessagePayloads == {<<"1">>, <<"x">>}

\* the chunks one 'data' callback of Spec can carry: one whole frame
Chunks ==
  {EndpointFrame(d) : d \in EndpointPayloads} \cup
  {MessageFrame(d) : d \in MessagePayloads}

\* status codes of the response to the GET, and to a POST
HandshakeStatuses == {200, 204, 404}
PostStatuses == {202, 300}
PostBodies == {"Multiple Choices"}

\* the lines of the streams SpecParser feeds, as bytes
StreamLines ==
  {EventPrefix \o Endpoint,
   EventPrefix \o Message,
   EventPrefix \o <<"p">>,
   DataPrefix \o <<"?">> \o SessionIdParam \o <<"=", "a">>,
   DataPrefix \o <<"\"", "C3", "A9", "\"">>,
   DataPrefix \o <<"x">>,
   DataPrefix \o Done,
   <<":">>,
   <<>>}

RECURSIVE JoinLines(_)
JoinLines(ls) ==
  IF ls = <<>> THEN <<>> ELSE Head(ls) \o LF \o JoinLines(Tail(ls))

Streams == {JoinLines(ls) : ls \in [1..MaxStreamLines -> StreamLines]}

\* ------------------------------------------------------------------- state
VARIABLES
  lifecycle,       \* "CONNECTING", "ACTIVE" or "TERMINATED"
  exitCode,        \* the argument of process.exit, -1 while running
  exitCause,       \* history: what ended the process
  connectPromise,  \* the promise of connectSSEStream
  ssePhase,        \* the GET: "pending", "streaming", "ended", "errored", "refused"
  sessionId,       \* let sessionId
  sseConnection,   \* let sseConnection, TRUE when it holds the response
  sseRequest,      \* let sseRequest: its path and whether it is destroyed
  buffer,          \* let buffer of the 'data' handler
  currentEvent,    \* let currentEvent of the 'data' handler
  stdout,          \* the lines written to process.stdout
  stderr,          \* the entries written with console.error
  sessionLog,      \* history: the assignments made by endpoint events
  dispatch,        \* history: one record per 'line' event
  posts,           \* history: the POST requests issued
  inflight,        \* the line handlers suspended at await sendMessage
  chunks,          \* number of 'data' callbacks so far
  whole,           \* SpecParser: the stream the server sends
  feed             \* SpecParser: the part of it not yet delivered

vars ==
  <<lifecycle, exitCode, exitCause, connectPromise, ssePhase, sessionId,
    sseConnection, sseRequest, buffer, currentEvent, stdout, stderr,
    sessionLog, dispatch, posts, inflight, chunks, whole, feed>>

Running == lifecycle # "TERMINATED"

\* the state when initialize() is suspended at await connectSSEStream():
\* the two start-up lines are logged and the GET is on its way
Init ==
  /\ lifecycle = "CONNECTING"
  /\ exitCode = -1
  /\ exitCause = "none"
  /\ connectPromise = "pending"
  /\ ssePhase = "pending"
  /\ sessionId = None
  /\ sseConnection = FALSE
  /\ sseRequest = [path |-> RequestPath(ClientSessionId), destroyed |-> FALSE]
  /\ buffer = <<>>
  /\ currentEvent = None
  /\ stdout = <<>>
  /\ stderr = <<LogEntry("Playwright MCP stdio-to-SSE proxy started", <<>>),
                LogEntry("Forwarding to", <<>>)>>
  /\ sessionLog = <<>>
  /\ dispatch = <<>>
  /\ posts = <<>>
  /\ inflight = {}
  /\ chunks = 0
  /\ whole = <<>>
  /\ feed = <<>>

\* process.exit(code)
Exit(code, cause) ==
  /\ lifecycle' = "TERMINATED"
  /\ exitCode' = code
  /\ exitCause' = cause

NoExit == UNCHANGED <<lifecycle, exitCode, exitCause>>

\* ------------------------------------------------------------- SSE stream
\* the catch of initialize(): log and process.exit(1)
FailInitialize(log) ==
  /\ connectPromise' = "rejected"
  /\ stderr' = log \o <<LogEntry("Failed to initialize", <<>>)>>
  /\ Exit(1, "connect_failed")

\* the response callback of the GET (lines 92-99): a status other than 200
\* rejects the promise, and the catch of initialize() exits with 1
SSEResponse(status) ==
  /\ Running
  /\ ssePhase = "pending"
  /\ IF status # 200
     THEN /\ ssePhase' = "refused"
          /\ FailInitialize(stderr)
          /\ UNCHANGED sseConnection
     ELSE /\ ssePhase' = "streaming"
          /\ stderr' = Append(stderr, LogEntry("Connected to SSE endpoint", <<>>))
          /\ sseConnection' = TRUE
          /\ NoExit
          /\ UNCHANGED connectPromise
  /\ UNCHANGED <<sessionId, sseRequest, buffer, currentEvent, stdout,
                 sessionLog, dispatch, posts, inflight, chunks, whole, feed>>

\* the variables the 'data' handler reads and writes
ParserState ==
  [buffer |-> buffer, currentEvent |-> currentEvent, sessionId |-> sessionId,
   sessionLog |-> sessionLog, stdout |-> stdout, stderr |-> stderr,
   resolved |-> FALSE, threw |-> FALSE]

\* one 'data' callback.  An exception thrown by new URL is caught by nobody:
\* the process dies of the uncaught exception with exit code 1.  The first
\* resolve() lets initialize() go on to create the readline interface
HandleData(chunk) ==
  \E ps \in {OnData(ParserState, chunk)} :
     /\ buffer' = ps.buffer
     /\ currentEvent' = ps.currentEvent
     /\ sessionId' = ps.sessionId
     /\ sessionLog' = ps.sessionLog
     /\ stdout' = ps.stdout
     /\ IF ps.threw
        THEN /\ stderr' = Append(ps.stderr, LogEntry("Uncaught TypeError: Invalid URL", <<>>))
             /\ Exit(1, "uncaught")
             /\ UNCHANGED connectPromise
        ELSE /\ stderr' = ps.stderr
             /\ IF ps.resolved /\ connectPromise = "pending"
                THEN /\ connectPromise' = "resolved"
                     /\ lifecycle' = "ACTIVE"
                     /\ UNCHANGED <<exitCode, exitCause>>
                ELSE /\ NoExit
                     /\ UNCHANGED connectPromise

\* res.on('data') with a chunk the server chose
SSEData(chunk) ==
  /\ Running
  /\ ssePhase = "streaming"
  /\ chunks < MaxChunks
  /\ Len(dispatch) + chunks < MaxInputs
  /\ feed = <<>>
  /\ HandleData(chunk)
  /\ chunks' = chunks + 1
  /\ UNCHANGED <<ssePhase, sseConnection, sseRequest, dispatch, posts,
                 inflight, whole, feed>>

\* the session id left in place
InvalidateConnectionOnly ==
  /\ sseConnection' = FALSE
  /\ UNCHANGED sessionId

\* sseConnection = null; sessionId = null
Invalidate ==
  /\ sseConnection' = FALSE
  /\ sessionId' = None

\* history: the sends in flight at this moment raced the invalidation
MarkRaced ==
  dispatch' = [i \in 1..Len(dispatch) |->
                 IF i \in inflight THEN [dispatch[i] EXCEPT !.raced = TRUE]
                 ELSE dispatch[i]]

\* res.on('end') (lines 148-152)
SSEEnd ==
  /\ Running
  /\ ssePhase = "streaming"
  /\ feed = <<>>
  /\ ssePhase' = "ended"
  /\ stderr' = Append(stderr, LogEntry("SSE connection closed", <<>>))
  /\ Invalidate
  /\ MarkRaced
  /\ NoExit
  /\ UNCHANGED <<connectPromise, sseRequest, buffer, currentEvent, stdout,
                 sessionLog, posts, inflight, chunks, whole, feed>>

\* sseRequest.on('error') (lines 155-160): reject() has an effect only while
\* the promise is pending, and then the catch of initialize() exits with 1
SSEError ==
  /\ Running
  /\ ssePhase \in {"pending", "streaming"}
  /\ ssePhase' = "errored"
  /\ Invalidate
  /\ MarkRaced
  /\ IF connectPromise = "pending"
     THEN FailInitialize(Append(stderr, LogEntry("SSE connection error", <<>>)))
     ELSE /\ stderr' = Append(stderr, LogEntry("SSE connection error", <<>>))
          /\ NoExit
          /\ UNCHANGED connectPromise
  /\ UNCHANGED <<sseRequest, buffer, currentEvent, stdout, sessionLog, posts,
                 inflight, chunks, whole, feed>>

\* ------------------------------------------------------------------- stdin
LineRecord(text, outcome, error) ==
  [text |-> text, sidAt |-> sessionId, phaseAt |-> ssePhase,
   outcome |-> outcome, error |-> error, status |-> 0, raced |-> FALSE]

NoError == Err("", 0, "")

\* the diagnostic entry written with console.log
CatchErrorLogsToStdout(text, n, err) ==
  /\ stderr' = stderr
  /\ stdout' = Append(stdout, [kind |-> "log", tag |-> "Error processing message"])
                   \o ErrorEnvelope(text, n, err)

\* what the catch block does with an error: one diagnostic entry, then the
\* envelope, if any
CatchError(text, n, err) ==
  /\ stderr' = Append(stderr, LogEntry("Error processing message", <<>>))
  /\ stdout' = stdout \o ErrorEnvelope(text, n, err)

\* the request sent twice
IssuePostTwice(n, r) ==
  /\ posts' = posts \o <<[line |-> n, path |-> r.path, body |-> r.body, sid |-> sessionId],
                         [line |-> n, path |-> r.path, body |-> r.body, sid |-> sessionId]>>
  /\ inflight' = inflight \cup {n}

\* httpModule.request(...), req.write(postData), req.end(): one POST leaves
\* and the handler of line n is suspended until it settles
IssuePost(n, r) ==
  /\ posts' = Append(posts, [line |-> n, path |-> r.path, body |-> r.body,
                             sid |-> sessionId])
  /\ inflight' = inflight \cup {n}

\* rl.on('line') up to the await (lines 182-209).  Nothing makes the next
\* 'line' event wait for this handler's promise
StdinLine(text) ==
  LET n == Len(dispatch) + 1
      p == JSONParseLine(text)
      r == SendMessage(sessionId, p.value)
  IN /\ lifecycle = "ACTIVE"
     /\ Len(dispatch) < MaxLines
     /\ Len(dispatch) + chunks < MaxInputs
     /\ IF IsBlank(text)
        THEN /\ dispatch' = Append(dispatch, LineRecord(text, "skipped", NoError))
             /\ UNCHANGED <<stdout, stderr, posts, inflight>>
        ELSE IF ~p.ok
        THEN /\ dispatch' = Append(dispatch,
                   LineRecord(text, "parse_error", Err("SyntaxError", 0, "")))
             /\ CatchError(text, n, Err("SyntaxError", 0, ""))
             /\ UNCHANGED <<posts, inflight>>
        ELSE IF ~r.posted
        THEN /\ dispatch' = Append(dispatch, LineRecord(text, "rejected", r.error))
             /\ CatchError(text, n, r.error)
             /\ UNCHANGED <<posts, inflight>>
        ELSE /\ dispatch' = Append(dispatch, LineRecord(text, "inflight", NoError))
             /\ IssuePost(n, r)
             /\ UNCHANGED <<stdout, stderr>>
     /\ NoExit
     /\ UNCHANGED <<connectPromise, ssePhase, sessionId, sseConnection,
                    sseRequest, buffer, currentEvent, sessionLog, chunks,
                    whole, feed>>

\* the 'end' of a POST's response (lines 55-62) and what the awaiting
\* handler does next
PostResponse(n, status, body) ==
  /\ Running
  /\ n \in inflight
  /\ inflight' = inflight \ {n}
  /\ IF IsSuccess(status)
     THEN /\ dispatch' = [dispatch EXCEPT ![n].outcome = "resolved",
                                          ![n].status = status]
          /\ UNCHANGED <<stdout, stderr>>
     ELSE /\ dispatch' = [dispatch EXCEPT ![n].outcome = "rejected",
                                          ![n].status = status,
                                          ![n].error = HttpError(status, body)]
          /\ CatchError(dispatch[n].text, n, HttpError(status, body))
  /\ NoExit
  /\ UNCHANGED <<connectPromise, ssePhase, sessionId, sseConnection,
                 sseRequest, buffer, currentEvent, sessionLog, posts, chunks,
                 whole, feed>>

\* a transport error on a POST treated like one on the SSE stream
PostErrorInvalidates(n) ==
  /\ Running
  /\ n \in inflight
  /\ inflight' = inflight \ {n}
  /\ dispatch' = [dispatch EXCEPT ![n].outcome = "rejected",
                                  ![n].error = TransportError]
  /\ CatchError(dispatch[n].text, n, TransportError)
  /\ Invalidate
  /\ NoExit
  /\ UNCHANGED <<connectPromise, ssePhase, sseRequest, buffer, currentEvent,
                 sessionLog, posts, chunks, whole, feed>>

\* req.on('error') of a POST (lines 65-67)
PostError(n) ==
  /\ Running
  /\ n \in inflight
  /\ inflight' = inflight \ {n}
  /\ dispatch' = [dispatch EXCEPT ![n].outcome = "rejected",
                                  ![n].error = TransportError]
  /\ CatchError(dispatch[n].text, n, TransportError)
  /\ NoExit
  /\ UNCHANGED <<connectPromise, ssePhase, sessionId, sseConnection,
                 sseRequest, buffer, currentEvent, sessionLog, posts, chunks,
                 whole, feed>>

\* ---------------------------------------------------------------- shutdown
\* the exit without sseRequest.destroy()
ShutdownKeepsRequest(log, cause) ==
  /\ stderr' = Append(stderr, LogEntry(log, <<>>))
  /\ Exit(0, cause)
  /\ UNCHANGED <<connectPromise, ssePhase, sessionId, sseConnection, sseRequest,
                 buffer, currentEvent, stdout, sessionLog, dispatch, posts,
                 inflight, chunks, whole, feed>>

\* if (sseRequest) sseRequest.destroy(); process.exit(0)
Shutdown(log, cause) ==
  /\ stderr' = Append(stderr, LogEntry(log, <<>>))
  /\ sseRequest' = [sseRequest EXCEPT !.destroyed = TRUE]
  /\ Exit(0, cause)
  /\ UNCHANGED <<connectPromise, ssePhase, sessionId, sseConnection, buffer,
                 currentEvent, stdout, sessionLog, dispatch, posts, inflight,
                 chunks, whole, feed>>

\* rl.on('close') (lines 211-217): the listener exists once the readline
\* interface is created, that is once connectSSEStream() has resolved
StdinClose ==
  /\ lifecycle = "ACTIVE"
  /\ Shutdown("stdin closed, exiting", "stdin_closed")

\* initialize() is still suspended at await connectSSEStream() when the
\* response ends (lines 148-152 settle nothing): the promise stays pending,
\* no readline interface exists, and with no handle left open the process
\* ends by itself, with exit code 0
EventLoopEmpty ==
  /\ lifecycle = "CONNECTING"
  /\ ssePhase = "ended"
  /\ connectPromise = "pending"
  /\ Exit(0, "loop_empty")
  /\ UNCHANGED <<connectPromise, ssePhase, sessionId, sseConnection, sseRequest,
                 buffer, currentEvent, stdout, stderr, sessionLog, dispatch,
                 posts, inflight, chunks, whole, feed>>

Signals == {"SIGINT", "SIGTERM"}

\* process.on('SIGINT') and process.on('SIGTERM') (lines 226-240)
Signal(sig) ==
  /\ Running
  /\ Shutdown("Received signal, exiting", sig)

Next ==
  \/ \E status \in HandshakeStatuses : SSEResponse(status)
  \/ \E chunk \in Chunks : SSEData(chunk)
  \/ SSEEnd
  \/ SSEError
  \/ \E text \in StdinLines : StdinLine(text)
  \/ \E n \in inflight, status \in PostStatuses, body \in PostBodies :
       PostResponse(n, status, body)
  \/ \E n \in inflight : PostError(n)
  \/ StdinClose
  \/ \E sig \in Signals : Signal(sig)
  \/ EventLoopEmpty

Spec == Init /\ [][Next]_vars

\* ------------------------------------------------------------- SpecParser
\* the stream of one server, already answered with 200, delivered in chunks
\* cut at any byte
InitParser ==
  /\ lifecycle = "CONNECTING"
  /\ exitCode = -1
  /\ exitCause = "none"
  /\ connectPromise = "pending"
  /\ ssePhase = "streaming"
  /\ sessionId = None
  /\ sseConnection = TRUE
  /\ sseRequest = [path |-> RequestPath(ClientSessionId), destroyed |-> FALSE]
  /\ buffer = <<>>
  /\ currentEvent = None
  /\ stdout = <<>>
  /\ stderr = <<LogEntry("Playwright MCP stdio-to-SSE proxy started", <<>>),
                LogEntry("Forwarding to", <<>>),
                LogEntry("Connected to SSE endpoint", <<>>)>>
  /\ sessionLog = <<>>
  /\ dispatch = <<>>
  /\ posts = <<>>
  /\ inflight = {}
  /\ chunks = 0
  /\ whole \in Streams
  /\ feed = whole

\* res.on('data') with the next k bytes of the stream
Feed(k) ==
  /\ Running
  /\ ssePhase = "streaming"
  /\ k \in 1..Len(feed)
  /\ HandleData(SubSeq(feed, 1, k))
  /\ feed' = SubSeq(feed, k+1, Len(feed))
  /\ UNCHANGED <<ssePhase, sseConnection, sseRequest, dispatch, posts,
                 inflight, chunks, whole>>

NextParser ==
  \/ \E k \in 1..Len(feed) : Feed(k)
  \/ SSEEnd

SpecParser == InitParser /\ [][NextParser]_vars

\* ================================================================== claims
\* the POSTs issued for line i, and the error envelopes written for it
PostsFor(i) == {k \in 1..Len(posts) : posts[k].line = i}
EnvelopesFor(i) ==
  {k \in 1..Len(stdout) : stdout[k].kind = "error" /\ stdout[k].line = i}

\* line i reached sendMessage: it was not blank and JSON.parse returned
Sent(i) == dispatch[i].outcome \notin {"skipped", "parse_error"}

\* C1: a send started while the session id is absent is rejected with
\* 'No active session' and issues no POST, and every POST ever issued was
\* issued while a session id was held
C1_NoSessionNoPost ==
  /\ \A i \in 1..Len(dispatch) :
       (Sent(i) /\ (~dispatch[i].sidAt.some \/ dispatch[i].sidAt.v = <<>>)) =>
         /\ dispatch[i].outcome = "rejected"
         /\ dispatch[i].error.msg = "No active session"
         /\ PostsFor(i) = {}
  /\ \A k \in 1..Len(posts) : posts[k].sid.some /\ posts[k].sid.v # <<>>

\* a line was sent with no session and rejected, and another one was posted
C1_Witness ==
  /\ \E i \in 1..Len(dispatch) :
       Sent(i) /\ ~dispatch[i].sidAt.some /\ dispatch[i].outcome = "rejected"
  /\ posts # <<>>

\* C2 as stated: at most one outbound POST is in flight at any time
C2_AtMostOneInFlight == Cardinality(inflight) <= 1

\* C2 as amended: 'line' events are not serialized, so a later line's POST
\* is issued while an earlier one is pending; what holds is that each line
\* has at most one POST, that a line in flight has exactly one and no
\* envelope yet, and that the POSTs in flight are at most the lines received
C2_OnePostPerLine ==
  /\ inflight = {i \in 1..Len(dispatch) : dispatch[i].outcome = "inflight"}
  /\ \A i \in 1..Len(dispatch) : Cardinality(PostsFor(i)) <= 1
  /\ \A i \in inflight : Cardinality(PostsFor(i)) = 1 /\ EnvelopesFor(i) = {}
  /\ Cardinality(inflight) <= Len(dispatch)

\* two POSTs are in flight at once
C2_Witness == Cardinality(inflight) = 2

Postable(i) ==
  /\ dispatch[i].text \in {Ping0Line, NotifyLine, SpacedLine}
  /\ dispatch[i].sidAt = Some(<<"a">>)

C4_EndInvalidates ==
  /\ ssePhase \in {"ended", "errored"} => sessionId = None
  /\ \A i \in 1..Len(dispatch) :
       (Sent(i) /\ dispatch[i].phaseAt \in {"ended", "errored"}) =>
         /\ dispatch[i].outcome = "rejected"
         /\ dispatch[i].error.msg = "No active session"
         /\ PostsFor(i) = {}

\* a session was established, the stream ended, and a later send failed
C4_Witness ==
  /\ \E k \in 1..Len(sessionLog) : sessionLog[k].value = Some(<<"a">>)
  /\ \E i \in 1..Len(dispatch) :
       /\ Sent(i) /\ dispatch[i].phaseAt = "ended"
       /\ dispatch[i].outcome = "rejected"

\* line i's send has settled
Settled(i) == dispatch[i].outcome \in {"resolved", "rejected"}

\* C5 as stated: a send in flight when the stream ends is rejected and an
\* error envelope is written for its line, whatever status arrives
C5_RacedSendFails ==
  \A i \in 1..Len(dispatch) :
    (dispatch[i].raced /\ Settled(i)) =>
      /\ dispatch[i].outcome = "rejected"
      /\ Cardinality(EnvelopesFor(i)) = 1

\* C5 as amended: the invalidation does not fail a send in flight; its
\* outcome is decided by its own response alone (a 2xx status resolves it
\* and writes nothing, any other status or a transport error rejects it and
\* writes its envelope), while the session id stays absent
C5_RacedSendByStatus ==
  \A i \in 1..Len(dispatch) :
    (dispatch[i].raced /\ Settled(i)) =>
      /\ dispatch[i].outcome = "resolved" <=> dispatch[i].status \in 200..299
      /\ dispatch[i].outcome = "resolved" => EnvelopesFor(i) = {}
      /\ (dispatch[i].outcome = "rejected" /\ dispatch[i].text # NullLine) =>
           Cardinality(EnvelopesFor(i)) = 1
      /\ sessionId = None

\* a send in flight when the stream ended was resolved by a later 202
C5_Witness ==
  \E i \in 1..Len(dispatch) :
    /\ dispatch[i].raced /\ dispatch[i].outcome = "resolved"
    /\ dispatch[i].status = 202

\* the step is the end of the SSE stream: res 'end' or the request's 'error'
StreamEnds == ssePhase = "streaming" /\ ssePhase' \in {"ended", "errored"}

\* C6 as stated: once the session is active, the remote SSE stream ending
\* moves the lifecycle on to closing and termination
C6_StreamEndCloses ==
  [][(StreamEnds /\ lifecycle = "ACTIVE") => lifecycle' \in {"CLOSING", "TERMINATED"}]_vars

\* C6 as amended: only the local side cascades.  stdin closing or a
\* termination signal destroys the SSE request and terminates the process
\* with exit code 0; the remote stream ending invalidates the session and
\* nothing else: the lifecycle stays ACTIVE, the request is not destroyed
\* and the process runs on until stdin closes or a signal arrives
C6_OnlyLocalSideCascades ==
  [][/\ (StreamEnds /\ lifecycle = "ACTIVE") =>
          /\ lifecycle' = "ACTIVE" /\ exitCode' = -1
          /\ sseRequest' = sseRequest
          /\ sessionId' = None
     /\ (Running /\ exitCause' \in {"stdin_closed", "SIGINT", "SIGTERM"}) =>
          /\ lifecycle' = "TERMINATED" /\ exitCode' = 0
          /\ sseRequest'.destroyed]_vars

\* the stream ended while ACTIVE and the process went on until stdin closed
C6_Witness ==
  /\ ssePhase = "ended" /\ connectPromise = "resolved"
  /\ exitCause = "stdin_closed" /\ sseRequest.destroyed

\* C7: the exit code is 0 when stdin closing or a signal ends the process,
\* with the SSE request destroyed and without waiting for sends in flight;
\* it is 1 exactly when establishing the initial session fails; there is no
\* other exit code
C7_ExitCodes ==
  lifecycle = "TERMINATED" =>
    /\ exitCode \in {0, 1}
    /\ exitCause \in {"stdin_closed", "SIGINT", "SIGTERM"} =>
         exitCode = 0 /\ sseRequest.destroyed
    /\ exitCode = 0 => exitCause \in {"stdin_closed", "SIGINT", "SIGTERM"}
    /\ connectPromise = "rejected" => exitCode = 1
    /\ exitCode = 1 => \A k \in 1..Len(sessionLog) : ~sessionLog[k].value.some

\* the result of handing the whole stream to one 'data' callback
WholeFeed ==
  OnData([buffer |-> <<>>, currentEvent |-> None, sessionId |-> None,
          sessionLog |-> <<>>, stdout |-> <<>>, stderr |-> <<>>,
          resolved |-> FALSE, threw |-> FALSE], whole)

\* C8 (SpecParser): a stream cut into chunks at any bytes has the same
\* effects, session-id assignments and relayed stdout lines, as the stream
\* fed as one chunk
C8_SplitInvariant ==
  (feed = <<>> /\ whole # <<>>) =>
    /\ stdout = WholeFeed.stdout
    /\ sessionLog = WholeFeed.sessionLog

\* the compact serialization of each line of the model
ExpectedBody(text) ==
  CASE text = Ping0Line -> "{\"jsonrpc\":\"2.0\",\"id\":0,\"method\":\"ping\"}"
    [] text = NotifyLine -> "{\"jsonrpc\":\"2.0\",\"method\":\"notify\"}"
    [] text = SpacedLine -> "{\"jsonrpc\":\"2.0\",\"id\":2,\"method\":\"ping\"}"
    [] text = NullLine -> "null"

\* C9: after an endpoint event whose payload carries sessionId=a the session
\* id is a, and every send that then succeeds issued exactly one POST, to
\* /sse?sessionId=a, with the JSON serialization of its message as the body
C9_PostToSession ==
  /\ (ssePhase = "streaming" /\ sessionLog # <<>>
        /\ sessionLog[Len(sessionLog)].data = EndpointA) =>
       sessionId = Some(<<"a">>)
  /\ \A i \in 1..Len(dispatch) :
       dispatch[i].outcome = "resolved" =>
         /\ dispatch[i].sidAt = Some(<<"a">>)
         /\ Cardinality(PostsFor(i)) = 1
         /\ \A k \in PostsFor(i) :
              /\ posts[k].path = EndpointA
              /\ posts[k].body = ExpectedBody(dispatch[i].text)

\* the line written with extra white space was sent and resolved
C9_Witness ==
  \E i \in 1..Len(dispatch) :
    dispatch[i].outcome = "resolved" /\ dispatch[i].text = SpacedLine

\* the id each JSON-RPC line of the model carries
ExpectedId(text) ==
  CASE text = Ping0Line -> JNum("0")
    [] text = SpacedLine -> JNum("2")
    [] text = NotifyLine -> JNull

\* C10: a line that parses as a JSON-RPC message and whose send fails gets
\* exactly one error envelope, with code -32603, the failure's message and
\* the id of the original message (null only when it has none)
C10_EnvelopeKeepsId ==
  \A i \in 1..Len(dispatch) :
    (dispatch[i].text \in {Ping0Line, SpacedLine, NotifyLine}
       /\ dispatch[i].outcome = "rejected") =>
      /\ Cardinality(EnvelopesFor(i)) = 1
      /\ \A k \in EnvelopesFor(i) :
           /\ stdout[k].code = -32603
           /\ stdout[k].message = dispatch[i].error
           /\ stdout[k].id = ExpectedId(dispatch[i].text)


\* ------------------------------------------------- the parser, line by line
\* the bytes the 'data' callback of this step receives
Delivered == SubSeq(feed, 1, Len(feed) - Len(feed'))

\* this step's chunk completes exactly the line given: the buffered text
\* followed by the chunk is the line and its line feed
Arrives(line) ==
  /\ Len(feed') < Len(feed)
  /\ Len(buffer) + Len(feed) - Len(feed') = Len(line) + 1
  /\ buffer \o Delivered = line \o LF

\* the pending event type is message, or absent
MessageOrNone == currentEvent = None \/ currentEvent = Some(Message)

ParseFailure == LogEntry("Failed to parse SSE message", <<"x">>)
ValidLine == DataPrefix \o <<"\"", "C3", "A9", "\"">>
ValidRelay == [kind |-> "relay", text |-> <<"\"", "e'", "\"">>]

\* C11: a data line with malformed JSON under event type message, or under
\* no event type, writes nothing to stdout, throws nothing and adds exactly
\* one diagnostic entry; the session id is unchanged, the stream stays open,
\* and a valid message line arriving after a parse failure is still relayed
C11_MalformedDropped ==
  /\ [][(Arrives(DataPrefix \o <<"x">>) /\ MessageOrNone) =>
          /\ stdout' = stdout
          /\ stderr' = Append(stderr, ParseFailure)
          /\ sessionId' = sessionId
          /\ lifecycle' = lifecycle /\ exitCode' = -1
          /\ ssePhase' = "streaming"]_vars
  /\ [][(Arrives(ValidLine) /\ MessageOrNone
          /\ \E k \in 1..Len(stderr) : stderr[k] = ParseFailure) =>
          /\ stdout' = Append(stdout, ValidRelay)
          /\ stderr' = stderr]_vars

\* the stream began with a malformed data line, then a valid one: one
\* diagnostic entry was written and the valid line was relayed
C11_Witness ==
  /\ \E pre \in {DataPrefix \o <<"x">> \o LF \o ValidLine \o LF} :
       /\ Len(whole) >= Len(pre)
       /\ SubSeq(whole, 1, Len(pre)) = pre
       /\ Len(feed) <= Len(whole) - Len(pre)
  /\ Cardinality({k \in 1..Len(stderr) : stderr[k] = ParseFailure}) = 1
  /\ stdout # <<>> /\ stdout[1] = ValidRelay

\* C12: a data line whose payload is exactly [DONE], under event type
\* message or under no event type, writes nothing to stdout, adds no
\* diagnostic entry and leaves the session id as it was
C12_DoneIgnored ==
  [][(Arrives(DataPrefix \o Done) /\ MessageOrNone) =>
       /\ stdout' = stdout
       /\ stderr' = stderr
       /\ sessionId' = sessionId
       /\ currentEvent' = None
       /\ lifecycle' = lifecycle]_vars

\* a stream that begins with a [DONE] line under event type message: the
\* line was consumed and left no trace
C12_Witness ==
  /\ \E pre \in {EventPrefix \o Message \o LF \o DataPrefix \o Done \o LF} :
       /\ Len(whole) >= Len(pre)
       /\ SubSeq(whole, 1, Len(pre)) = pre
       /\ Len(feed) = Len(whole) - Len(pre)
  /\ currentEvent = None
  /\ stdout = <<>>
  /\ \A k \in 1..Len(stderr) : stderr[k].tag # "Failed to parse SSE message"

\* C13: every line on stdout is either the re-serialized JSON of a message
\* frame or the error envelope of a stdin line whose send was rejected; the
\* diagnostic entries (parse failures, send failures, lifecycle notices) are
\* on stderr only, so stdout holds no more than one line per message frame
\* received and one per rejected line
C13_StdoutProtocolOnly ==
  /\ \A k \in 1..Len(stdout) :
       \/ stdout[k].kind = "relay" /\ stdout[k].text = <<"1">>
       \/ /\ stdout[k].kind = "error"
          /\ stdout[k].code = InternalError
          /\ stdout[k].line \in 1..Len(dispatch)
          /\ dispatch[stdout[k].line].outcome = "rejected"
          /\ stdout[k].message = dispatch[stdout[k].line].error
  /\ Cardinality({k \in 1..Len(stdout) : stdout[k].kind = "relay"}) <= chunks
  /\ \A i \in 1..Len(dispatch) : Cardinality(EnvelopesFor(i)) <= 1
  /\ Cardinality({k \in 1..Len(stdout) : stdout[k].kind = "error"})
       <= Cardinality({k \in 1..Len(stderr) :
                        stderr[k].tag = "Error processing message"})

\* a frame was relayed and an envelope was written, while the failed send
\* left its diagnostic entry on stderr
C13_Witness ==
  /\ \E k \in 1..Len(stdout) : stdout[k].kind = "relay"
  /\ \E k \in 1..Len(stdout) : stdout[k].kind = "error"
  /\ \E k \in 1..Len(stderr) : stderr[k].tag = "Error processing message"

\* the send of line i is rejected in this step
BecomesRejected(i) ==
  /\ dispatch'[i].outcome = "rejected"
  /\ i <= Len(dispatch) => dispatch[i].outcome # "rejected"

\* C14: a rejected send (no session, a path the request refuses, a non-2xx
\* response, a transport error on the POST) leaves the session id, the SSE
\* connection and the lifecycle as they were and issues no further POST;
\* a rejected line has at most the one POST it was sent with, and a
\* line that follows it with a session held is still posted
C14_FailedSendNotFatal ==
  /\ [][(\E i \in 1..Len(dispatch') : BecomesRejected(i)) =>
          /\ sessionId' = sessionId
          /\ sseConnection' = sseConnection
          /\ ssePhase' = ssePhase
          /\ lifecycle = "ACTIVE" /\ lifecycle' = "ACTIVE"
          /\ exitCode' = -1
          /\ posts' = posts]_vars
  /\ [](\A i \in 1..Len(dispatch) :
          dispatch[i].outcome = "rejected" =>
            /\ Cardinality(PostsFor(i)) <= 1
            /\ (i < Len(dispatch) /\ Postable(i+1)) => PostsFor(i+1) # {})

\* the first line's send failed on a transport error; the session is still
\* held, the proxy is still ACTIVE and the second line was posted
C14_Witness ==
  /\ Len(dispatch) >= 2
  /\ dispatch[1].outcome = "rejected" /\ dispatch[1].error = TransportError
  /\ PostsFor(2) # {}
  /\ sessionId = Some(<<"a">>)
  /\ sseConnection
  /\ lifecycle = "ACTIVE"

CommentLine == <<":">>
SessionLine == DataPrefix \o <<"?">> \o SessionIdParam \o <<"=", "a">>

\* C15 as stated: every complete line that is neither an event line nor a
\* data line, blank or not, resets the pending event type to absent and
\* emits nothing
C15_AnyOtherLineResets ==
  [][(Arrives(<<>>) \/ Arrives(CommentLine)) =>
       /\ currentEvent' = None
       /\ stdout' = stdout /\ stderr' = stderr /\ sessionId' = sessionId]_vars

\* C15 as amended: only the empty line resets the pending event type; a
\* non-empty line that is neither an event line nor a data line is skipped
\* and the pending type carries across it, so a data line that follows
\* event: endpoint and such a line is still handled as the endpoint event.
\* Neither kind of line emits anything
C15_OnlyBlankLineResets ==
  /\ [][Arrives(<<>>) =>
          /\ currentEvent' = None
          /\ stdout' = stdout /\ stderr' = stderr
          /\ sessionId' = sessionId]_vars
  /\ [][Arrives(CommentLine) =>
          /\ currentEvent' = currentEvent
          /\ stdout' = stdout /\ stderr' = stderr
          /\ sessionId' = sessionId]_vars
  /\ [][(Arrives(SessionLine) /\ currentEvent = Some(Endpoint)) =>
          sessionId' = Some(<<"a">>)]_vars

\* event: endpoint, a comment line, then the data line: the session id was
\* assigned across the comment line
C15_Witness ==
  /\ \E pre \in {EventPrefix \o Endpoint \o LF \o CommentLine \o LF
                   \o SessionLine \o LF} :
       /\ Len(whole) >= Len(pre)
       /\ SubSeq(whole, 1, Len(pre)) = pre
       /\ Len(feed) = Len(whole) - Len(pre)
  /\ sessionId = Some(<<"a">>)
  /\ stdout = <<>>

\* the data lines of the streams
DataLines == {SessionLine, ValidLine, DataPrefix \o <<"x">>, DataPrefix \o Done}

\* C16: a data line that arrives while the pending event type is endpoint,
\* or any type other than message, writes nothing to stdout (and the pending
\* type is absent afterwards); every line on stdout was written by a data
\* line under type message or under no type
C16_RelayOnlyMessage ==
  /\ [][((\E line \in DataLines : Arrives(line))
          /\ ~Falsy(currentEvent) /\ currentEvent # Some(Message)) =>
          /\ stdout' = stdout
          /\ currentEvent' = None \/ lifecycle' = "TERMINATED"]_vars
  /\ [][(Len(feed) - Len(feed') = Len(ValidLine) + 1 /\ buffer = <<>>
          /\ stdout' # stdout) =>
          /\ MessageOrNone
          /\ Delivered = ValidLine \o LF
          /\ stdout' = Append(stdout, ValidRelay)]_vars

\* a JSON payload arrived under an event type that is neither message nor
\* endpoint, and stdout is empty
C16_Witness ==
  /\ \E pre \in {EventPrefix \o <<"p">> \o LF \o ValidLine \o LF} :
       /\ Len(whole) >= Len(pre)
       /\ SubSeq(whole, 1, Len(pre)) = pre
       /\ Len(feed) = Len(whole) - Len(pre)
  /\ stdout = <<>>
  /\ currentEvent = None
  /\ lifecycle = "CONNECTING"

\* line i is a JSON-RPC object received while a session id is held
ValidWithSession(i) ==
  /\ dispatch[i].text \in {Ping0Line, NotifyLine, SpacedLine}
  /\ dispatch[i].sidAt.some /\ dispatch[i].sidAt.v # <<>>

\* C17: the POSTs are issued in the order the lines arrived, and every valid
\* line received while a session id is held has exactly one POST, carrying
\* its message: none is duplicated, none is skipped
C17_PostsInArrivalOrder ==
  /\ \A k \in 1..Len(posts) : \A l \in 1..Len(posts) :
       k < l => posts[k].line < posts[l].line
  /\ \A i \in 1..Len(dispatch) :
       ValidWithSession(i) =>
         /\ Cardinality(PostsFor(i)) = 1
         /\ \A k \in PostsFor(i) : posts[k].body = ExpectedBody(dispatch[i].text)

\* C18: when connectSSEStream resolves and the proxy becomes ACTIVE, a
\* session id is held, whatever the payload of the first endpoint event
C18_ResolvesWithSession ==
  [][(lifecycle = "CONNECTING" /\ lifecycle' = "ACTIVE") =>
       ~Falsy(sessionId')]_vars

\* C19: a process that leaves CONNECTING does so by becoming ACTIVE or by
\* exiting with code 1, unless a signal ended it: while the connection
\* promise is still pending no other exit happens, so a 200 response whose
\* stream ends before any endpoint event leads to exit code 1
C19_ConnectingSettles ==
  (lifecycle = "TERMINATED" /\ connectPromise = "pending"
     /\ exitCause \notin Signals) => exitCode = 1

\* the sessionId query parameter of an endpoint payload
ParamOf(data) ==
  CASE data = EndpointA -> Some(<<"a">>)
    [] data = EndpointSpace -> Some(<<"a", " ", "b">>)
    [] data = EndpointNoId -> None

\* C20: a session id that is held is the sessionId parameter of the most
\* recent endpoint event of the stream, which is still open; it is never the
\* placeholder of the GET, which the server never sent; and it changes only
\* when an endpoint event is handled or when the stream ends or fails, never
\* in a step that issues a POST, relays a frame or settles a send
C20_SessionIdFromEndpoint ==
  /\ [](sessionId # None =>
          /\ ssePhase = "streaming"
          /\ sessionLog # <<>>
          /\ sessionId = ParamOf(sessionLog[Len(sessionLog)].data))
  /\ [](sessionId # Some(ClientSessionId))
  /\ [][sessionId' # sessionId =>
          /\ \/ /\ Len(sessionLog') = Len(sessionLog) + 1
                /\ sessionId' = ParamOf(sessionLog'[Len(sessionLog')].data)
             \/ /\ ssePhase = "streaming" /\ ssePhase' \in {"ended", "errored"}
                /\ sessionId' = None
          /\ posts' = posts
          /\ inflight' = inflight
          /\ stdout' = stdout]_vars

\* a second endpoint event replaced the session id of the first
C20_Witness ==
  /\ Len(sessionLog) = 2
  /\ sessionLog[1].data = EndpointA
  /\ sessionLog[2].data = EndpointSpace
  /\ sessionId = Some(<<"a", " ", "b">>)
  /\ ssePhase = "streaming"
====
